---- MODULE Spec2Model ----
(***************************************************************************)
(* A model of dse_allotment_search.py (class DSEAllotmentSearcher).        *)
(*                                                                         *)
(* Python strings are sequences of one-character strings, so that lower(), *)
(* strip(), split(), isdigit(), endswith() and the substring test are      *)
(* computed rather than assumed.  The file system is a function from paths *)
(* to contents; a path exists when it is in the function's domain.         *)
(***************************************************************************)
EXTENDS Naturals, Sequences, FiniteSets, TLC

VARIABLES
    pc,               \* position of run() (lines 251-280)
    colleges_data,    \* self.colleges_data: code -> [sr_no, name, code]
    files,            \* the file system under self.pdf_dir: path -> content
    index_response,   \* what the index page request produced (line 39)
    scrape_ok,        \* <<value returned by scrape_college_data>>, <<>> before
    mgr,              \* download_all_pdfs: "idle", "collecting", "returned"
    task,             \* per download task: position and result of download_pdf
    tally,            \* successful_downloads, failed_downloads, already_exists
    requests,         \* per download task: GET requests issued by this run
    existed,          \* per download task: what os.path.exists gave (line 104)
    pdf_response,     \* per running download task: the response of line 108
    search_name,      \* the local search_name of run() / argument of search
    results,          \* value returned by the last search_all_pdfs
    searched,         \* terms search_all_pdfs was invoked with
    displayed,        \* terms display_results was invoked with
    pdf_doc,          \* matcher: the PDF handed to search_pdf
    pdf_lines,        \* matcher: the pages of pdf_doc as lists of lines
    match_out         \* matcher: <<value returned by search_pdf>>, <<>> before

vars == <<pc, colleges_data, files, index_response, scrape_ok, mgr, task,
          tally, requests, existed, pdf_response, search_name, results,
          searched, displayed, pdf_doc, pdf_lines, match_out>>

progVars == <<pc, colleges_data, files, index_response, scrape_ok>>
dlVars == <<mgr, task, tally, requests, existed, pdf_response>>
searchVars == <<search_name, results, searched, displayed>>
matchVars == <<pdf_doc, pdf_lines, match_out>>

-----------------------------------------------------------------------------
(* Python str operations *)

UpperLetters ==
    <<"A","B","C","D","E","F","G","H","I","J","K","L","M",
      "N","O","P","Q","R","S","T","U","V","W","X","Y","Z">>

LowerLetters ==
    <<"a","b","c","d","e","f","g","h","i","j","k","l","m",
      "n","o","p","q","r","s","t","u","v","w","x","y","z">>

Digits == <<"0","1","2","3","4","5","6","7","8","9">>

Whitespace == {" ", "\t", "\n", "\r"}

Min(a, b) == IF a < b THEN a ELSE b

LowerChar(c) ==
    IF \E i \in 1..26 : UpperLetters[i] = c
    THEN LowerLetters[CHOOSE i \in 1..26 : UpperLetters[i] = c]
    ELSE c

\* str.lower()
Lower(s) == [i \in 1..Len(s) |-> LowerChar(s[i])]

\* needle in hay
Contains(hay, needle) ==
    \E i \in 0..Len(hay) :
        /\ i + Len(needle) <= Len(hay)
        /\ SubSeq(hay, i + 1, i + Len(needle)) = needle

\* str.strip()
RECURSIVE LStrip(_)
LStrip(s) ==
    IF s # <<>> /\ Head(s) \in Whitespace THEN LStrip(Tail(s)) ELSE s

RECURSIVE RStrip(_)
RStrip(s) ==
    IF s # <<>> /\ s[Len(s)] \in Whitespace
    THEN RStrip(SubSeq(s, 1, Len(s) - 1))
    ELSE s

Strip(s) == RStrip(LStrip(s))

\* str.split(sep) for a one-character sep: always at least one piece
RECURSIVE Split(_, _)
Split(s, sep) ==
    IF \E i \in 1..Len(s) : s[i] = sep
    THEN LET k == CHOOSE i \in 1..Len(s) :
                      s[i] = sep /\ \A j \in 1..(i - 1) : s[j] # sep
         IN  <<SubSeq(s, 1, k - 1)>> \o Split(SubSeq(s, k + 1, Len(s)), sep)
    ELSE <<s>>

\* str.isdigit(): non-empty and every character a digit
IsDigit(s) ==
    /\ s # <<>>
    /\ \A i \in 1..Len(s) : \E d \in 1..10 : Digits[d] = s[i]

\* str.endswith(suffix)
EndsWith(s, suffix) ==
    /\ Len(suffix) <= Len(s)
    /\ SubSeq(s, Len(s) - Len(suffix) + 1, Len(s)) = suffix

\* str(n) for a natural number n
RECURSIVE Str(_)
Str(n) ==
    IF n < 10 THEN <<Digits[n + 1]>>
    ELSE Str(n \div 10) \o <<Digits[(n % 10) + 1]>>

\* seq[:n]
Take(seq, n) == SubSeq(seq, 1, Min(n, Len(seq)))

-----------------------------------------------------------------------------
(* Text Extractor & Matcher: search_pdf *)

\* A PDF on disk is [kind |-> "pdf", pages |-> <<text of page 1, ...>>], or
\* [kind |-> "corrupt", error |-> message] when open/PdfReader/extract_text
\* raises.

\* lines 168-171: full_text += page.extract_text() + "\n"
RECURSIVE FullText(_)
FullText(pages) ==
    IF pages = <<>> THEN <<>>
    ELSE FullText(SubSeq(pages, 1, Len(pages) - 1))
             \o pages[Len(pages)] \o <<"\n">>

\* Mutant of MatchingLines: the lines are compared without lower()
RECURSIVE MatchingLinesCaseSensitive(_, _)
MatchingLinesCaseSensitive(lines, name) ==
    IF lines = <<>> THEN <<>>
    ELSE LET line == Head(lines)
             rest == MatchingLinesCaseSensitive(Tail(lines), name)
         IN  IF Contains(line, name) /\ Strip(line) # <<>>
             THEN <<Strip(line)>> \o rest
             ELSE rest

\* lines 177-178: the trimmed non-blank lines that contain the name
RECURSIVE MatchingLines(_, _)
MatchingLines(lines, name) ==
    IF lines = <<>> THEN <<>>
    ELSE LET line == Head(lines)
             rest == MatchingLines(Tail(lines), name)
         IN  IF Contains(Lower(line), Lower(name)) /\ Strip(line) # <<>>
             THEN <<Strip(line)>> \o rest
             ELSE rest

\* line 179: matching_lines[:3]
ContextLimit == 3

\* Mutant of search_pdf: the except branch reports the file as a match
search_pdf_found_on_error(doc, name) ==
    IF doc.kind = "corrupt"
    THEN [found |-> TRUE,
          context |-> << <<"Error reading PDF: ", doc.error>> >>]
    ELSE LET full_text == FullText(doc.pages)
         IN  IF Contains(Lower(full_text), Lower(name))
             THEN [found |-> TRUE,
                   context |-> Take(MatchingLines(Split(full_text, "\n"), name),
                                    ContextLimit)]
             ELSE [found |-> FALSE, context |-> <<>>]

\* lines 163-183
search_pdf(doc, name) ==
    IF doc.kind = "corrupt"
    THEN [found |-> FALSE,
          context |-> << <<"Error reading PDF: ", doc.error>> >>]
    ELSE LET full_text == FullText(doc.pages)
         IN  IF Contains(Lower(full_text), Lower(name))
             THEN [found |-> TRUE,
                   context |-> Take(MatchingLines(Split(full_text, "\n"), name),
                                    ContextLimit)]
             ELSE [found |-> FALSE, context |-> <<>>]

-----------------------------------------------------------------------------
(* Catalog Builder: scrape_college_data, generate_fallback_codes *)

\* The outcome of self.session.get(self.index_url) and of parsing it:
\*   [kind |-> "neterror"]                 requests raised (timeout, refused)
\*   [kind |-> "http", status, markup, rows]
\* where markup is "ok" or "rejected" (BeautifulSoup raises) and rows is
\* soup.find_all('tr'), each row the raw texts of its td cells.

\* line 40: Response.raise_for_status() raises HTTPError for 4xx and 5xx
RaisesForStatus(status) == status >= 400 /\ status < 600

\* lines 58-62
CollegeRecord(sr_no, name, code) ==
    [sr_no |-> sr_no, name |-> name, code |-> code]

\* dict assignment d[key] = value
DictPut(d, key, value) ==
    [k \in (DOMAIN d) \cup {key} |-> IF k = key THEN value ELSE d[k]]

\* Mutant of StoreRow: a code already in the catalog is not overwritten
StoreRowKeepFirst(cells, data) ==
    IF Len(cells) >= 3
    THEN LET sr_no == Strip(cells[1])
             institute_code == Strip(cells[2])
             institute_name == Strip(cells[3])
         IN  IF ~IsDigit(institute_code) \/ institute_code \in DOMAIN data
             THEN data
             ELSE DictPut(data, institute_code,
                          CollegeRecord(sr_no, institute_name, institute_code))
    ELSE data

\* lines 47-62, for one row: cells.get_text(strip=True), isdigit, store
StoreRow(cells, data) ==
    IF Len(cells) >= 3
    THEN LET sr_no == Strip(cells[1])
             institute_code == Strip(cells[2])
             institute_name == Strip(cells[3])
         IN  IF ~IsDigit(institute_code)
             THEN data
             ELSE DictPut(data, institute_code,
                          CollegeRecord(sr_no, institute_name, institute_code))
    ELSE data

\* lines 46-64: the loop, in document order
RECURSIVE StoreRows(_, _)
StoreRows(rows, data) ==
    IF rows = <<>> THEN data
    ELSE StoreRows(Tail(rows), StoreRow(Head(rows), data))

\* line 46: rows[1:]
SkipHeader(rows) == SubSeq(rows, 2, Len(rows))

\* Mutant of PyRange: the upper bound is taken in
PyRangeInclusive(lo, hi) == lo..hi

\* Python range(lo, hi)
PyRange(lo, hi) == {n \in lo..hi : n < hi}

\* lines 79-88
code_ranges ==
    << <<1002, 1300>>, <<2008, 2800>>, <<3012, 3600>>, <<4004, 4800>>,
       <<5003, 5600>>, <<6004, 7000>>, <<14005, 14006>>, <<16006, 16200>> >>

\* line 94: 'Institute '
InstitutePrefix == <<"I","n","s","t","i","t","u","t","e"," ">>

\* line 94: f'Institute {code}'
InstituteLabel(code) == InstitutePrefix \o code

\* lines 90-96
generate_fallback_codes(data) ==
    LET codes == UNION {PyRange(code_ranges[i][1], code_ranges[i][2]) :
                            i \in 1..Len(code_ranges)}
        keys == {Str(n) : n \in codes}
    IN  [k \in (DOMAIN data) \cup keys |->
            IF k \in keys
            THEN CollegeRecord(<<>>, InstituteLabel(k), k)
            ELSE data[k]]

\* lines 38-74: the value returned and the catalog left behind
scrape_college_data(resp, data) ==
    IF \/ resp.kind = "neterror"
       \/ RaisesForStatus(resp.status)
       \/ resp.markup = "rejected"
    THEN [ok |-> FALSE, data |-> generate_fallback_codes(data)]
    ELSE [ok |-> TRUE, data |-> StoreRows(SkipHeader(resp.rows), data)]

-----------------------------------------------------------------------------
(* Download Manager: download_pdf, download_all_pdfs *)

Rounds == <<"cap1", "cap2">>

\* Mutant of local_path: the round is left out of the local path
local_path_one_dir(institute_code, cap_round) ==
    <<"cap1", institute_code \o <<"_","4",".","p","d","f">>>>

\* line 101: f"{self.pdf_dir}/{cap_round}/{institute_code}_4.pdf", as the
\* pair (directory under pdf_dir, file name)
local_path(institute_code, cap_round) ==
    <<cap_round, institute_code \o <<"_","4",".","p","d","f">>>>

\* Mutant of PathExists: the test of line 104 never finds the file
PathExistsNever(fs, path) == FALSE

\* os.path.exists
PathExists(fs, path) == path \in DOMAIN fs

\* line 122: max_workers=5
max_workers == 5

\* Contents a file can have: a PDF as the matcher sees it.
DocOld == [kind |-> "pdf", pages |-> << <<"o","l","d">> >>]
DocJohn == [kind |-> "pdf", pages |-> << <<"J","o","h","n"," ","D","o","e","\n","J","a","n","e"," ","R","o","e">> >>]
DocEmpty == [kind |-> "corrupt", error |-> "Cannot read an empty file"]

\* What self.session.get(pdf_url) can produce (line 108): an exception of
\* requests, or a response with a status, a content-type header ("" when
\* the header is absent, as headers.get('content-type', '') gives) and a body.
PdfResponses ==
    { [kind |-> "neterror", text |-> <<"R","e","a","d"," ","t","i","m","e","d"," ","o","u","t">>],
      [kind |-> "http", status |-> 404, ctype |-> <<"t","e","x","t","/","h","t","m","l">>,
       body |-> DocEmpty],
      [kind |-> "http", status |-> 200, ctype |-> <<"a","p","p","l","i","c","a","t","i","o","n","/","p","d","f">>,
       body |-> DocJohn],
      [kind |-> "http", status |-> 200, ctype |-> <<"t","e","x","t","/","h","t","m","l">>,
       body |-> DocEmpty],
      [kind |-> "http", status |-> 200, ctype |-> <<>>, body |-> DocEmpty],
      [kind |-> "http", status |-> 304, ctype |-> <<"a","p","p","l","i","c","a","t","i","o","n","/","p","d","f">>,
       body |-> DocEmpty] }

\* str(e) of the HTTPError raise_for_status raises
HttpErrorText(status) ==
    Str(status) \o (IF status < 500 THEN <<" ","C","l","i","e","n","t"," ","E","r","r","o","r">>
                                    ELSE <<" ","S","e","r","v","e","r"," ","E","r","r","o","r">>)

Returned(success, message) ==
    [kind |-> "returned", success |-> success, message |-> message]

Raised == [kind |-> "raised"]

NoResult == [kind |-> "none"]

TaskState(p, r) == [pc |-> p, result |-> r]

\* lines 126-129
download_tasks(data) ==
    {<<code, Rounds[i]>> : code \in DOMAIN data, i \in 1..Len(Rounds)}

Running == {t \in DOMAIN task : task[t].pc \in {"fetch", "write"}}

\* lines 122-139: the tasks are built and submitted, the tallies zeroed
StartDownload ==
    /\ mgr' = "collecting"
    /\ task' = [t \in download_tasks(colleges_data) |->
                   TaskState("queued", NoResult)]
    /\ tally' = [successful |-> 0, failed |-> 0, already_exists |-> 0]
    /\ requests' = [t \in download_tasks(colleges_data) |-> 0]
    /\ existed' = [t \in download_tasks(colleges_data) |-> "unknown"]
    /\ pdf_response' = [t \in download_tasks(colleges_data) |-> NoResult]

\* Mutant of IsPdfResponse: the content type is not looked at
IsPdfResponseAny(resp) == TRUE

\* line 112: 'application/pdf' in response.headers.get('content-type', '')
IsPdfResponse(resp) == Contains(resp.ctype, <<"a","p","p","l","i","c","a","t","i","o","n","/","p","d","f">>)

\* lines 100-105: a worker takes the task and tests the local path
DlStart(t) ==
    /\ mgr = "collecting"
    /\ task[t].pc = "queued"
    /\ Cardinality(Running) < max_workers
    /\ existed' = [existed EXCEPT ![t] =
                      IF PathExists(files, local_path(t[1], t[2]))
                      THEN "yes" ELSE "no"]
    /\ task' = [task EXCEPT ![t] =
                   IF PathExists(files, local_path(t[1], t[2]))
                   THEN TaskState("done", Returned(TRUE, <<"A","l","r","e","a","d","y"," ","e","x","i","s","t","s">>))
                   ELSE TaskState("fetch", NoResult)]
    /\ UNCHANGED <<progVars, mgr, tally, requests, pdf_response, searchVars,
                   matchVars>>

\* lines 107-120 up to the write: the GET, raise_for_status, the content type
FetchResult(resp) ==
    IF resp.kind = "neterror"
    THEN TaskState("done", Returned(FALSE, <<"E","r","r","o","r",":"," ">> \o Take(resp.text, 50)))
    ELSE IF RaisesForStatus(resp.status)
    THEN TaskState("done",
             Returned(FALSE, <<"E","r","r","o","r",":"," ">> \o Take(HttpErrorText(resp.status), 50)))
    ELSE IF IsPdfResponse(resp)
    THEN TaskState("write", NoResult)
    ELSE TaskState("done", Returned(FALSE, <<"N","o","t"," ","a"," ","P","D","F">>))

DlFetch(t) ==
    /\ mgr = "collecting"
    /\ task[t].pc = "fetch"
    /\ \E resp \in PdfResponses :
          /\ pdf_response' = [pdf_response EXCEPT ![t] = resp]
          /\ task' = [task EXCEPT ![t] = FetchResult(resp)]
    /\ requests' = [requests EXCEPT ![t] = @ + 1]
    /\ UNCHANGED <<progVars, mgr, tally, existed, searchVars, matchVars>>

\* lines 113-115: open(local_path, 'wb') and f.write(response.content).
\* Either can raise OSError, which download_pdf does not catch: open before
\* the file is created, write after it was created (and truncated).
WriteOutcomes == {"written", "open_raises", "write_raises"}

FilesAfterWrite(fs, path, body, outcome) ==
    IF outcome = "written" THEN DictPut(fs, path, body)
    ELSE IF outcome = "write_raises" THEN DictPut(fs, path, DocEmpty)
    ELSE fs

DlWrite(t) ==
    /\ mgr = "collecting"
    /\ task[t].pc = "write"
    /\ \E outcome \in WriteOutcomes :
          /\ files' = FilesAfterWrite(files, local_path(t[1], t[2]),
                                      pdf_response[t].body, outcome)
          /\ task' = [task EXCEPT ![t] =
                         IF outcome = "written"
                         THEN TaskState("done", Returned(TRUE, <<"D","o","w","n","l","o","a","d","e","d">>))
                         ELSE TaskState("done", Raised)]
    /\ UNCHANGED <<pc, colleges_data, index_response, scrape_ok, mgr,
                   tally, requests, existed, pdf_response, searchVars,
                   matchVars>>

\* Mutant of TallyOf: failures with '404' in the message are filed with the
\* files already present instead of the failures
TallyOfSuppress404(result) ==
    IF result.kind = "raised" THEN "failed"
    ELSE IF result.success /\ Contains(result.message, <<"A","l","r","e","a","d","y"," ","e","x","i","s","t","s">>)
    THEN "already_exists"
    ELSE IF result.success THEN "successful"
    ELSE IF Contains(result.message, <<"4","0","4">>) THEN "already_exists"
    ELSE "failed"

\* lines 143-156: the tally a completed future is counted in
TallyOf(result) ==
    IF result.kind = "raised" THEN "failed"
    ELSE IF result.success /\ Contains(result.message, <<"A","l","r","e","a","d","y"," ","e","x","i","s","t","s">>)
    THEN "already_exists"
    ELSE IF result.success THEN "successful"
    ELSE "failed"

\* lines 141-156: as_completed yields a finished future, in any order
Collect(t) ==
    /\ mgr = "collecting"
    /\ task[t].pc = "done"
    /\ tally' = [tally EXCEPT ![TallyOf(task[t].result)] = @ + 1]
    /\ task' = [task EXCEPT ![t].pc = "collected"]
    /\ pdf_response' = [pdf_response EXCEPT ![t] = NoResult]
    /\ UNCHANGED <<progVars, mgr, requests, existed, searchVars, matchVars>>

\* lines 157-161 and 264: every future was yielded; the summary is printed
\* and run() goes on to the search loop
DownloadReturn ==
    /\ mgr = "collecting"
    /\ \A t \in DOMAIN task : task[t].pc = "collected"
    /\ mgr' = "returned"
    /\ pc' = "prompt_search"
    /\ UNCHANGED <<colleges_data, files, index_response, scrape_ok, task,
                   tally, requests, existed, pdf_response, searchVars,
                   matchVars>>

-----------------------------------------------------------------------------
(* Search Orchestrator: search_all_pdfs *)

\* os.listdir(cap_dir): the names in the round's directory.  The two
\* directories exist from construction on (lines 30-32).
ListDir(fs, cap_round) == {path[2] : path \in {q \in DOMAIN fs : q[1] = cap_round}}

\* The orders os.listdir can return the names in
Listings(names) ==
    {order \in [1..Cardinality(names) -> names] :
        \A i, j \in 1..Cardinality(names) : order[i] = order[j] => i = j}

\* line 199: [f for f in os.listdir(cap_dir) if f.endswith('.pdf')]
RECURSIVE PdfFiles(_)
PdfFiles(listed) ==
    IF listed = <<>> THEN <<>>
    ELSE IF EndsWith(Head(listed), <<".","p","d","f">>)
    THEN <<Head(listed)>> \o PdfFiles(Tail(listed))
    ELSE PdfFiles(Tail(listed))

\* Mutant of CollegeName: the catalog is not consulted
CollegeNameAlwaysLabel(data, institute_code) == InstituteLabel(institute_code)

\* line 208: self.colleges_data.get(code, {}).get('name', f'Institute {code}')
CollegeName(data, institute_code) ==
    IF institute_code \in DOMAIN data
    THEN data[institute_code].name
    ELSE InstituteLabel(institute_code)

\* lines 202-215: the loop over one round's files
RECURSIVE SearchFiles(_, _, _, _, _)
SearchFiles(pdf_files, cap_round, fs, data, name) ==
    IF pdf_files = <<>> THEN <<>>
    ELSE LET pdf_file == Head(pdf_files)
             institute_code == Split(pdf_file, "_")[1]
             hit == search_pdf(fs[<<cap_round, pdf_file>>], name)
             rest == SearchFiles(Tail(pdf_files), cap_round, fs, data, name)
         IN  IF hit.found
             THEN << [institute_code |-> institute_code,
                      college_name |-> CollegeName(data, institute_code),
                      pdf_file |-> pdf_file,
                      context |-> hit.context] >> \o rest
             ELSE rest

\* lines 185-217; listing[r] is the order os.listdir returned round r in
search_all_pdfs(fs, data, name, listing) ==
    [r \in {Rounds[i] : i \in 1..Len(Rounds)} |->
        SearchFiles(PdfFiles(listing[r]), r, fs, data, name)]

\* The listings os.listdir can give for the two directories
ListingsOf(fs) ==
    {[r \in {Rounds[1], Rounds[2]} |-> IF r = Rounds[1] THEN first ELSE second] :
        first \in Listings(ListDir(fs, Rounds[1])),
        second \in Listings(ListDir(fs, Rounds[2]))}

NoResults == [r \in {Rounds[i] : i \in 1..Len(Rounds)} |-> <<>>]

\* search_all_pdfs invoked on its own with a search string
SearchAllPdfs(name) ==
    /\ pc = "search"
    /\ \E listing \in ListingsOf(files) :
          results' = search_all_pdfs(files, colleges_data, name, listing)
    /\ search_name' = name
    /\ searched' = searched \cup {name}
    /\ pc' = "searched"
    /\ UNCHANGED <<colleges_data, files, index_response, scrape_ok,
                   dlVars, displayed, matchVars>>

-----------------------------------------------------------------------------
(* Interactive Driver: run *)

\* What the user can type at a prompt; input() raises EOFError at end of
\* input, which main() reports before exiting with status 1.
DownloadInputs == { <<>>, <<" ","N"," ">>, <<"n">>, <<"y">> }
SearchInputs == { <<" ","d","o","e"," ">>, <<"D","O","E">>, <<"d","o">>, <<" ","a","\t">>, <<" "," ">>, <<>>, <<"Q","u","i","t"," ">> }
ContinueInputs == { <<"n">>, <<" ","N">>, <<"y">>, <<>> }

\* line 257
RunScrape ==
    /\ pc = "scrape"
    /\ LET r == scrape_college_data(index_response, colleges_data)
       IN  /\ colleges_data' = r.data
           /\ scrape_ok' = <<r.ok>>
    /\ pc' = "ask_download"
    /\ UNCHANGED <<files, index_response, dlVars, searchVars, matchVars>>

\* lines 260-262
AskDownload ==
    /\ pc = "ask_download"
    /\ \/ /\ pc' = "crashed"
          /\ UNCHANGED dlVars
       \/ \E raw \in DownloadInputs :
             LET download_choice == Lower(Strip(raw))
             IN  IF download_choice # <<"n">>
                 THEN pc' = "downloading" /\ StartDownload
                 ELSE pc' = "prompt_search" /\ UNCHANGED dlVars
    /\ UNCHANGED <<colleges_data, files, index_response, scrape_ok,
                   searchVars, matchVars>>

\* Mutant of TooShort: two characters are let through
TooShortOffByOne(name) == Len(name) < 2

\* line 270: len(search_name) < 3
TooShort(name) == Len(name) < 3

\* lines 265-275: one pass of the loop up to the next prompt
PromptSearch ==
    /\ pc = "prompt_search"
    /\ \/ /\ pc' = "crashed"
          /\ UNCHANGED searchVars
       \/ \E raw \in SearchInputs :
             /\ search_name' = Strip(raw)
             /\ IF Strip(raw) = <<>> \/ Lower(Strip(raw)) = <<"q","u","i","t">>
                THEN pc' = "done" /\ UNCHANGED <<results, searched, displayed>>
                ELSE IF TooShort(Strip(raw))
                THEN /\ pc' = "prompt_search"
                     /\ UNCHANGED <<results, searched, displayed>>
                ELSE /\ \E listing \in ListingsOf(files) :
                           results' = search_all_pdfs(files, colleges_data,
                                                      Strip(raw), listing)
                     /\ searched' = searched \cup {Strip(raw)}
                     /\ displayed' = displayed \cup {Strip(raw)}
                     /\ pc' = "prompt_continue"
    /\ UNCHANGED <<colleges_data, files, index_response, scrape_ok,
                   dlVars, matchVars>>

\* lines 278-280
PromptContinue ==
    /\ pc = "prompt_continue"
    /\ \/ pc' = "crashed"
       \/ \E raw \in ContinueInputs :
             pc' = IF Lower(Strip(raw)) = <<"n">> THEN "done" ELSE "prompt_search"
    /\ UNCHANGED <<colleges_data, files, index_response, scrape_ok,
                   dlVars, searchVars, matchVars>>

-----------------------------------------------------------------------------
(* The program from construction on, in a small environment *)

DlIdle ==
    /\ mgr = "idle"
    /\ task = <<>>
    /\ tally = [successful |-> 0, failed |-> 0, already_exists |-> 0]
    /\ requests = <<>>
    /\ existed = <<>>
    /\ pdf_response = <<>>

SearchIdle ==
    /\ search_name = <<>>
    /\ results = NoResults
    /\ searched = {}
    /\ displayed = {}

MatchIdle ==
    /\ pdf_doc = DocEmpty
    /\ pdf_lines = <<>>
    /\ match_out = <<>>

NoResponse == [kind |-> "none"]

HttpResponse(status, markup, rows) ==
    [kind |-> "http", status |-> status, markup |-> markup, rows |-> rows]

\* The index page of the end-to-end example: one institution
TestCollegeTable ==
    << <<>>, << <<"1">>, <<"1","0","0","2">>, <<"T","e","s","t"," ","C","o","l","l","e","g","e">> >> >>

\* The whole program is run against an index page that lists one
\* institution (or none), so that the download pool stays small.
ProgramIndexResponses ==
    { HttpResponse(200, "ok", TestCollegeTable),
      HttpResponse(200, "ok", << <<>> >>) }

\* lines 19-32: the state run() starts from
Init ==
    /\ pc = "scrape"
    /\ colleges_data = <<>>
    /\ files \in { <<>>, [p \in {local_path(<<"1","0","0","2">>, "cap2")} |-> DocOld] }
    /\ index_response \in ProgramIndexResponses
    /\ scrape_ok = <<>>
    /\ DlIdle
    /\ SearchIdle
    /\ MatchIdle

Next ==
    \/ RunScrape
    \/ AskDownload
    \/ \E t \in DOMAIN task : DlStart(t)
    \/ \E t \in DOMAIN task : DlFetch(t)
    \/ \E t \in DOMAIN task : DlWrite(t)
    \/ \E t \in DOMAIN task : Collect(t)
    \/ DownloadReturn
    \/ PromptSearch
    \/ PromptContinue

Spec == Init /\ [][Next]_vars

-----------------------------------------------------------------------------
(* The Catalog Builder over index pages *)

\* The rows an index page is made of: the raw texts of a row's td cells
ScrapeRows ==
    { << <<"1">>, <<"1","0","0","2">>, <<"A">> >>,
      << <<"2">>, <<"1","0","0","2">>, <<" ","B"," ">> >>,
      << <<" ","3">>, <<" ","2","0","0","8","\n">>, <<"C">> >>,
      << <<"4">>, <<"1","0","a","2">>, <<"D">> >>,
      << <<"5">>, <<"3","0","1","2">> >>,
      << <<"6">>, <<>>, <<"E">>, <<"x">> >> }

\* First rows: a header of th cells (no td), or a row of td cells
HeaderRows == { <<>>, << <<"0">>, <<"7","0","0","0">>, <<"H">> >> }

MaxRows == 3

IndexTables ==
    UNION { {<<h>> \o rs : h \in HeaderRows, rs \in [1..n -> ScrapeRows]} :
              n \in 0..MaxRows } \cup { <<>> }

\* A failed request carries no page the code reads.
IndexResponses ==
    { [kind |-> "neterror"] }
    \cup { HttpResponse(s, "ok", <<>>) : s \in {404, 503} }
    \cup { HttpResponse(200, "rejected", <<>>) }
    \cup { HttpResponse(s, "ok", rows) : s \in {200, 304}, rows \in IndexTables }

InitScrape ==
    /\ pc = "scrape"
    /\ colleges_data = <<>>
    /\ files = <<>>
    /\ index_response \in IndexResponses
    /\ scrape_ok = <<>>
    /\ DlIdle
    /\ SearchIdle
    /\ MatchIdle

NextScrape == RunScrape

SpecScrape == InitScrape /\ [][NextScrape]_vars

-----------------------------------------------------------------------------
(* The Download Manager over catalogs, file systems and runs *)

DlCodes == { <<"1","0","0","2">>, <<"2","0","0","8">> }

\* The catalogs the runs are given: none, one or both of the codes
DlCatalogs ==
    { [code \in codes |-> CollegeRecord(<<"1">>, InstituteLabel(code), code)] :
        codes \in { {}, {<<"1","0","0","2">>}, DlCodes } }

\* Files left by earlier runs
DlFileSystems ==
    { [p \in paths |-> DocOld] :
        paths \in SUBSET {local_path(code, Rounds[i]) :
                             code \in DlCodes, i \in 1..Len(Rounds)} }

InitDownload ==
    /\ pc = "ask_download"
    /\ colleges_data \in DlCatalogs
    /\ files \in DlFileSystems
    /\ index_response = NoResponse
    /\ scrape_ok = <<>>
    /\ DlIdle
    /\ SearchIdle
    /\ MatchIdle

\* lines 282-286 and 256-258: the process ends and the program is started
\* again; the file system is what the last process left, the catalog is
\* built anew
NextProcess ==
    /\ pc \in {"prompt_search", "crashed"}
    /\ pc' = "ask_download"
    /\ colleges_data' \in DlCatalogs
    /\ mgr' = "idle"
    /\ task' = <<>>
    /\ tally' = [successful |-> 0, failed |-> 0, already_exists |-> 0]
    /\ requests' = <<>>
    /\ existed' = <<>>
    /\ pdf_response' = <<>>
    /\ UNCHANGED <<files, index_response, scrape_ok, searchVars, matchVars>>

NextDownload ==
    \/ AskDownload
    \/ \E t \in DOMAIN task : DlStart(t)
    \/ \E t \in DOMAIN task : DlFetch(t)
    \/ \E t \in DOMAIN task : DlWrite(t)
    \/ \E t \in DOMAIN task : Collect(t)
    \/ DownloadReturn
    \/ NextProcess

SpecDownload == InitDownload /\ [][NextDownload]_vars

-----------------------------------------------------------------------------
(* The Matcher over PDF texts *)

\* Lines a page's text is made of
MatcherLines ==
    { <<"J"," ","D","o","e">>, <<" "," ","a"," ","D","O","E","\t">>, <<"J"," ","R","o","e">>, <<" ">> }

MatcherTerms == { <<"D","o","E">>, <<"r","o","e">>, <<"j"," ","d">> }

MaxLines == 5

\* '\n'.join(lines)
RECURSIVE JoinLines(_)
JoinLines(lines) ==
    IF lines = <<>> THEN <<>>
    ELSE IF Len(lines) = 1 THEN lines[1]
    ELSE lines[1] \o <<"\n">> \o JoinLines(Tail(lines))

\* The PDF whose pages have the given lines
DocOfLines(pages) ==
    [kind |-> "pdf", pages |-> [i \in 1..Len(pages) |-> JoinLines(pages[i])]]

\* One or two pages of lines, MaxLines lines at most
MatcherPages ==
    { <<>> } \cup
    UNION { { IF cut = n THEN <<ls>>
              ELSE <<SubSeq(ls, 1, cut), SubSeq(ls, cut + 1, n)>> :
                 ls \in [1..n -> MatcherLines], cut \in 1..n } :
            n \in 1..MaxLines }

InitMatcher ==
    /\ pc = "search_pdf"
    /\ colleges_data = <<>>
    /\ files = <<>>
    /\ index_response = NoResponse
    /\ scrape_ok = <<>>
    /\ DlIdle
    /\ search_name \in MatcherTerms
    /\ results = NoResults
    /\ searched = {}
    /\ displayed = {}
    /\ pdf_lines \in MatcherPages
    /\ pdf_doc = DocOfLines(pdf_lines)
    /\ match_out = <<>>

\* search_pdf invoked on its own
SearchPdf ==
    /\ pc = "search_pdf"
    /\ match_out' = <<search_pdf(pdf_doc, search_name)>>
    /\ pc' = "returned"
    /\ UNCHANGED <<colleges_data, files, index_response, scrape_ok,
                   dlVars, searchVars, pdf_doc, pdf_lines>>

NextMatcher == SearchPdf

SpecMatcher == InitMatcher /\ [][NextMatcher]_vars

-----------------------------------------------------------------------------
(* The Search Orchestrator over catalogs and directories *)

SearchFileNames ==
    { <<"1","0","0","2","_","4",".","p","d","f">>,
      <<"1","0","0","2","_","4",".","P","D","F">>,
      <<"7",".","p","d","f">> }

DocMany ==
    [kind |-> "pdf", pages |-> << <<"D","o","e"," ","1","\n","\t","d","o","e"," ","2"," ","\n","x">>, <<"D","O","E"," ","3","\n","d","o","E"," ","4">> >>]

SearchDocs == { DocJohn, DocMany, DocOld, DocEmpty }

SearchTerms == { <<"d","o","e">>, <<"D","O","E">>, <<"o","l","d">> }

SearchCatalogs ==
    { <<>>,
      [code \in { <<"1","0","0","2">> } |-> CollegeRecord(<<"1">>, <<"T","e","s","t"," ","C","o","l","l","e","g","e">>, code)] }

MaxFiles == 3

SearchFileSystems ==
    UNION { [paths -> SearchDocs] :
              paths \in { ps \in SUBSET ({Rounds[i] : i \in 1..Len(Rounds)}
                                            \X SearchFileNames) :
                             Cardinality(ps) <= MaxFiles } }

InitSearch ==
    /\ pc = "search"
    /\ colleges_data \in SearchCatalogs
    /\ files \in SearchFileSystems
    /\ index_response = NoResponse
    /\ scrape_ok = <<>>
    /\ DlIdle
    /\ SearchIdle
    /\ MatchIdle

NextSearch == \E name \in SearchTerms : SearchAllPdfs(name)

SpecSearch == InitSearch /\ [][NextSearch]_vars

-----------------------------------------------------------------------------
(* Properties of the Download Manager (SpecDownload) *)

PathOf(t) == local_path(t[1], t[2])

\* C1, state part: a download_pdf call that found its local file present
\* issued no request and returned (path, True, "Already exists").
C1_SkipsPresentFile ==
    \A t \in DOMAIN task :
        existed[t] = "yes" =>
            /\ requests[t] = 0
            /\ task[t].pc \in {"done", "collected"}
            /\ task[t].result = Returned(TRUE, <<"A","l","r","e","a","d","y"," ","e","x","i","s","t","s">>)
            /\ PathExists(files, PathOf(t))

\* C1, step part: no step of any run changes or removes a file that is
\* present.
C1_PresentFileKept ==
    \A p \in DOMAIN files : p \in DOMAIN files' /\ files'[p] = files[p]

\* C1: for every (code, round) whose local file exists when download_pdf is
\* invoked, the call issues zero network requests, leaves the file untouched
\* and reports success as "Already exists"; across any sequence of download
\* runs a file once present is never fetched again or overwritten.
C1_PresentNeverRefetched ==
    [](C1_SkipsPresentFile) /\ [][C1_PresentFileKept]_vars

\* C1 witness: a file downloaded by an earlier run is skipped by this run.
C1_Witness ==
    \E t \in DOMAIN task :
        /\ existed[t] = "yes"
        /\ task[t].pc = "collected"
        /\ files[PathOf(t)] = DocJohn
        /\ tally.already_exists >= 1

\* The status lines HTTP calls successful: 2xx
C2_SuccessStatus(status) == status >= 200 /\ status < 300

C2_Failed(t) ==
    /\ task[t].pc = "done"
    /\ task[t].result.kind = "returned"
    /\ ~task[t].result.success
    /\ ~PathExists(files, PathOf(t))

C3_Collected == {t \in DOMAIN task : task[t].pc = "collected"}

C3_FailedTasks ==
    {t \in C3_Collected :
        \/ task[t].result.kind = "raised"
        \/ /\ task[t].result.kind = "returned"
           /\ ~task[t].result.success}

C3_PoolStep ==
    \/ \E t \in DOMAIN task : DlStart(t) \/ DlFetch(t) \/ DlWrite(t) \/ Collect(t)
    \/ DownloadReturn

\* C3: in download_all_pdfs no task's failure aborts the others: whatever
\* the completion order and whichever tasks fail (by a returned failure or
\* by a raised exception), each collected task is counted in exactly one
\* tally, failures (those with '404' in the message too) in the failed one;
\* while tasks are outstanding the manager can go on, and when it returns
\* all 2 x |catalog| tasks (each code x {cap1, cap2}) are counted:
\* successful + already-present + failed = 2 x |catalog|.
C3_IsolatedFailures ==
    /\ tally.successful + tally.failed + tally.already_exists
           = Cardinality(C3_Collected)
    /\ tally.failed = Cardinality(C3_FailedTasks)
    /\ tally.already_exists
           = Cardinality({t \in C3_Collected : existed[t] = "yes"})
    /\ mgr = "collecting" => ENABLED C3_PoolStep
    /\ mgr = "returned" =>
          /\ DOMAIN task = (DOMAIN colleges_data) \X {"cap1", "cap2"}
          /\ C3_Collected = DOMAIN task
          /\ tally.successful + tally.failed + tally.already_exists
                 = 2 * Cardinality(DOMAIN colleges_data)

\* C3 witness: the manager returned from a run of four tasks of which one
\* raised, one failed with a 404, one was downloaded and one was present.
C3_Witness ==
    /\ mgr = "returned"
    /\ Cardinality(DOMAIN task) = 4
    /\ \E a, b \in DOMAIN task :
          /\ task[a].result.kind = "raised"
          /\ task[b].result.kind = "returned"
          /\ Contains(task[b].result.message, <<"4","0","4">>)
    /\ tally = [successful |-> 1, failed |-> 2, already_exists |-> 1]

\* C10: within a run, under any interleaving of the workers, the success
\* flag a download_pdf call returned agrees with the file system: after a
\* returned success a file exists at the local path, after a returned
\* failure none does.
C10_FlagAgreesWithFiles ==
    \A t \in DOMAIN task :
        task[t].result.kind = "returned" =>
            (task[t].result.success <=> PathExists(files, PathOf(t)))

\* C10 witness: of the two rounds of one code, fetched concurrently, one
\* call returned failure and the other wrote its file.
C10_Witness ==
    \E t, u \in DOMAIN task :
        /\ t[1] = u[1]
        /\ t[2] = "cap1"
        /\ u[2] = "cap2"
        /\ existed[t] = "no"
        /\ existed[u] = "no"
        /\ task[t].result.kind = "returned"
        /\ ~task[t].result.success
        /\ task[u].result = Returned(TRUE, <<"D","o","w","n","l","o","a","d","e","d">>)
        /\ task[u].pc = "done"
        /\ task[t].pc = "done"

-----------------------------------------------------------------------------
(* Properties of the Matcher (SpecMatcher) *)

RECURSIVE C4_Flatten(_)
C4_Flatten(pages) ==
    IF pages = <<>> THEN <<>> ELSE Head(pages) \o C4_Flatten(Tail(pages))

\* The lines of the document, in order, that contain the search string when
\* both are put in lower case
C4_Hits ==
    {i \in 1..Len(C4_Flatten(pdf_lines)) :
        Contains(Lower(C4_Flatten(pdf_lines)[i]), Lower(search_name))}

C4_Nth(k) ==
    CHOOSE i \in C4_Hits : Cardinality({j \in C4_Hits : j < i}) = k - 1

\* C4: for a search string of three characters or more, search_pdf returns
\* found=true exactly when the lower-cased string occurs in the lower-cased
\* text, and then the context is the first three (or fewer) lines that
\* contain it, trimmed and in their original order.
C4_FirstThreeMatchingLines ==
    match_out # <<>> =>
        /\ match_out[1].found = (C4_Hits # {})
        /\ match_out[1].found
               = Contains(Lower(FullText(pdf_doc.pages)), Lower(search_name))
        /\ Len(match_out[1].context) = Min(3, Cardinality(C4_Hits))
        /\ \A k \in 1..Len(match_out[1].context) :
              match_out[1].context[k] = Strip(C4_Flatten(pdf_lines)[C4_Nth(k)])

\* C4 witness: five lines of two pages contain the string, in different
\* cases and with blanks around them; three are returned.
C4_Witness ==
    /\ match_out # <<>>
    /\ Len(pdf_lines) = 2
    /\ Cardinality(C4_Hits) = 5
    /\ Len(match_out[1].context) = 3
    /\ match_out[1].context[1] # match_out[1].context[2]
    /\ C4_Flatten(pdf_lines)[2] # match_out[1].context[2]

-----------------------------------------------------------------------------
(* Properties of the Catalog Builder (SpecScrape) *)

C5_Numeric(s) ==
    /\ Len(s) > 0
    /\ \A i \in 1..Len(s) : s[i] \in {"0","1","2","3","4","5","6","7","8","9"}

\* The rows after the header with three cells or more and a numeric code
C5_DataRows ==
    {i \in 2..Len(index_response.rows) :
        /\ Len(index_response.rows[i]) >= 3
        /\ C5_Numeric(Strip(index_response.rows[i][2]))}

C5_LastRowOf(code) ==
    CHOOSE i \in C5_DataRows :
        /\ Strip(index_response.rows[i][2]) = code
        /\ \A j \in C5_DataRows :
              Strip(index_response.rows[j][2]) = code => j <= i

\* C5: after a successful scrape_college_data the catalog holds exactly the
\* codes of the rows after the header that have at least three cells and a
\* numeric code text; rows with a non-numeric code are left out, and a code
\* several rows share has the sequence number and name of the last of them.
C5_CatalogFromRows ==
    scrape_ok = <<TRUE>> =>
        /\ DOMAIN colleges_data
               = {Strip(index_response.rows[i][2]) : i \in C5_DataRows}
        /\ \A code \in DOMAIN colleges_data :
              colleges_data[code] =
                  [sr_no |-> Strip(index_response.rows[C5_LastRowOf(code)][1]),
                   name |-> Strip(index_response.rows[C5_LastRowOf(code)][3]),
                   code |-> code]

\* C5 witness: a page whose header row has a numeric code, with two rows of
\* one code and a row with a non-numeric code.
C5_Witness ==
    /\ scrape_ok = <<TRUE>>
    /\ Len(index_response.rows) >= 1
    /\ Len(index_response.rows[1]) = 3
    /\ \E i, j \in C5_DataRows :
          /\ i < j
          /\ Strip(index_response.rows[i][2]) = Strip(index_response.rows[j][2])
          /\ index_response.rows[i][3] # index_response.rows[j][3]
    /\ \E i \in 2..Len(index_response.rows) :
          /\ Len(index_response.rows[i]) >= 3
          /\ ~C5_Numeric(Strip(index_response.rows[i][2]))

\* The codes of the eight fallback ranges, bounds included
C6_FallbackCodes ==
    (1002..1299) \cup (2008..2799) \cup (3012..3599) \cup (4004..4799)
        \cup (5003..5599) \cup (6004..6999) \cup {14005} \cup (16006..16199)

C6_FallbackKeys == {Str(n) : n \in C6_FallbackCodes}

C6_IsFallbackCatalog ==
    /\ scrape_ok = <<FALSE>>
    /\ colleges_data # <<>>
    /\ DOMAIN colleges_data = C6_FallbackKeys
    /\ Cardinality(DOMAIN colleges_data) = 4262
    /\ \A k \in DOMAIN colleges_data :
          colleges_data[k] =
              [sr_no |-> <<>>, name |-> <<"I","n","s","t","i","t","u","t","e"," ">> \o k, code |-> k]
    /\ colleges_data[<<"1","4","0","0","5">>].name = <<"I","n","s","t","i","t","u","t","e"," ","1","4","0","0","5">>

-----------------------------------------------------------------------------
(* Properties of the Search Orchestrator (SpecSearch) *)

Range(seq) == {seq[i] : i \in 1..Len(seq)}

RoundSet == {"cap1", "cap2"}

\* The part of a file name before its first '_' (all of it without one)
C7_CodeOf(f) ==
    IF \E i \in 1..Len(f) : f[i] = "_"
    THEN SubSeq(f, 1, (CHOOSE i \in 1..Len(f) :
                          f[i] = "_" /\ \A j \in 1..(i - 1) : f[j] # "_") - 1)
    ELSE f

\* The '.pdf' files of a round whose text contains the term in any case
C7_Matches(r) ==
    {f \in ListDir(files, r) :
        /\ EndsWith(f, <<".","p","d","f">>)
        /\ files[<<r, f>>].kind = "pdf"
        /\ Contains(Lower(FullText(files[<<r, f>>].pages)), Lower(search_name))}

\* C7: search_all_pdfs returns, for each round, exactly one entry per '.pdf'
\* file of the round's directory whose text contains the term in any case;
\* an entry has the code before the file name's first '_', the catalog's
\* name for it or 'Institute {code}', the file name and the matcher's
\* context.  With catalog {1002: Test College} and cap1/1002_4.pdf reading
\* 'John Doe\nJane Roe', 'doe' in any case gives the one cap1 entry
\* (1002, Test College, [John Doe]) and no cap2 entry.
C7_ResultsPerRound ==
    pc = "searched" =>
        /\ DOMAIN results = RoundSet
        /\ \A r \in RoundSet :
              /\ Len(results[r]) = Cardinality(C7_Matches(r))
              /\ {e.pdf_file : e \in Range(results[r])} = C7_Matches(r)
              /\ \A e \in Range(results[r]) :
                    /\ e.institute_code = C7_CodeOf(e.pdf_file)
                    /\ e.college_name =
                           IF e.institute_code \in DOMAIN colleges_data
                           THEN colleges_data[e.institute_code].name
                           ELSE <<"I","n","s","t","i","t","u","t","e"," ">> \o e.institute_code
                    /\ e.context =
                           search_pdf(files[<<r, e.pdf_file>>], search_name).context
        /\ (/\ colleges_data # <<>>
            /\ DOMAIN files = {<<"cap1", <<"1","0","0","2","_","4",".","p","d","f">>>>}
            /\ files[<<"cap1", <<"1","0","0","2","_","4",".","p","d","f">>>>] = DocJohn
            /\ Lower(search_name) = <<"d","o","e">>)
           => results =
                  [cap1 |-> << [institute_code |-> <<"1","0","0","2">>,
                                college_name |-> <<"T","e","s","t"," ","C","o","l","l","e","g","e">>,
                                pdf_file |-> <<"1","0","0","2","_","4",".","p","d","f">>,
                                context |-> << <<"J","o","h","n"," ","D","o","e">> >>] >>,
                   cap2 |-> <<>>]

\* C7 witness: the end-to-end example, searched in upper case.
C7_Witness ==
    /\ pc = "searched"
    /\ colleges_data # <<>>
    /\ DOMAIN files = {<<"cap1", <<"1","0","0","2","_","4",".","p","d","f">>>>}
    /\ files[<<"cap1", <<"1","0","0","2","_","4",".","p","d","f">>>>] = DocJohn
    /\ search_name = <<"D","O","E">>
    /\ Len(results["cap1"]) = 1
    /\ results["cap2"] = <<>>

C9_Unreadable == {p \in DOMAIN files : files[p].kind = "corrupt"}

C9_Readable == [p \in (DOMAIN files) \ C9_Unreadable |-> files[p]]

\* What the search returns with the unreadable files taken away
C9_WithoutUnreadable ==
    search_all_pdfs(C9_Readable, colleges_data, search_name,
                    CHOOSE l \in ListingsOf(C9_Readable) : TRUE)

\* C9: an error while reading a PDF is caught in search_pdf and returned as
\* found=false with the error message as the one context line; the search
\* goes on over the other files of both rounds, whose results are those of
\* a search without the unreadable files.
C9_UnreadableFilesSkipped ==
    pc = "searched" =>
        /\ \A p \in C9_Unreadable :
              /\ ~search_pdf(files[p], search_name).found
              /\ Len(search_pdf(files[p], search_name).context) = 1
              /\ search_pdf(files[p], search_name).context[1][2] = files[p].error
        /\ \A r \in RoundSet :
              /\ Len(results[r]) = Len(C9_WithoutUnreadable[r])
              /\ Range(results[r]) = Range(C9_WithoutUnreadable[r])

\* C9 witness: an unreadable PDF in cap1 next to one that matches, and a
\* match found in cap2 after them.
C9_Witness ==
    /\ pc = "searched"
    /\ \E p \in C9_Unreadable : p[1] = "cap1" /\ EndsWith(p[2], <<".","p","d","f">>)
    /\ Len(results["cap1"]) = 1
    /\ Len(results["cap2"]) = 1

-----------------------------------------------------------------------------
(* Properties of the Interactive Driver (Spec) *)

C8_Proper(term) ==
    /\ Len(term) >= 3
    /\ term[1] \notin Whitespace
    /\ term[Len(term)] \notin Whitespace

C8_OnlyProperTerms ==
    /\ \A term \in searched : C8_Proper(term)
    /\ displayed = searched

C8_LoopStep ==
    (pc = "prompt_search" /\ pc' # "crashed") =>
        /\ (search_name' = <<>> \/ Lower(search_name') = <<"q","u","i","t">>) =>
              pc' = "done" /\ UNCHANGED <<results, searched, displayed>>
        /\ (/\ search_name' # <<>>
            /\ Lower(search_name') # <<"q","u","i","t">>
            /\ Len(search_name') < 3) =>
              pc' = "prompt_search" /\ UNCHANGED <<results, searched, displayed>>
        /\ pc' = "prompt_continue" =>
              /\ C8_Proper(search_name')
              /\ search_name' \in searched'
              /\ search_name' \in displayed'

\* C8: in the search loop a non-empty term other than 'quit' that is shorter
\* than three characters after trimming leads straight back to the search
\* prompt, with neither search_all_pdfs nor display_results invoked; they
\* are invoked only with trimmed terms of three characters or more, and an
\* empty term or 'quit' ends the loop.
C8_ShortTermsRejected ==
    [](C8_OnlyProperTerms) /\ [][C8_LoopStep]_vars

\* C8 witness: after a search, a two-character term was typed and the driver
\* is at the search prompt again.
C8_Witness ==
    /\ pc = "prompt_search"
    /\ search_name = <<"d","o">>
    /\ searched # {}
    /\ mgr = "returned"

====
